---- MODULE Spec2Model ----
(***************************************************************************)
(* Multi-Agent RFP Response System (src/app.py): a Streamlit script that   *)
(* is re-executed from the top on every user interaction.  One action of   *)
(* this module is one user interaction together with the complete script   *)
(* run (and any st.rerun()) that handles it.                               *)
(*                                                                         *)
(* Text is a sequence of tokens, so concatenation (\o) is distinguishable  *)
(* from overwrite.  A Python value that may be None, a dict or a str is a  *)
(* record [kind, val].                                                     *)
(***************************************************************************)
EXTENDS Naturals, Sequences, FiniteSets

(* ------------------------------------------------------------------ *)
(* Values                                                              *)
(* ------------------------------------------------------------------ *)

Str(t) == [kind |-> "str", val |-> t]
None == [kind |-> "none", val |-> <<>>]
EmptyDict == [kind |-> "dict", val |-> <<>>]
Absent == [kind |-> "absent", val |-> <<>>]

\* Python truthiness of a session value: None, {} and "" are falsy.
Truthy(v) == v.kind = "str" /\ v.val # <<>>

\* Bounds of the model.
MaxCompetitors == 3
MaxDocs == 1
MaxLines == 3

Pages == {"Agent1", "Agent2", "Agent3", "Final"}
InputMethods == {"Manual", "Upload", "Paste"}
ProfileFields == {"company_name", "industry_focus", "key_strengths",
                  "past_case_studies", "unique_selling_points"}

\* Inputs the user and the model endpoint can supply.
KeyValues == {"", "sk"}
NameValues == {<<>>, <<"Acme">>}
FieldValues == {<<>>, <<"m">>}
PasteValues == {<<>>, <<"pasted">>}
RequestValues == {<<>>, <<"R">>}
CompetitorNames == {"", "X", "Y", "Z"}
ReplyTexts == {<<>>, <<"r1">>, <<"r2">>}
\* What run_agent can return: None on any exception, else response.content.
Replies == {None} \cup {Str(t) : t \in ReplyTexts}

\* What the profile extraction call can return: run_agent's None, the empty
\* text, a text without section headers and one with a header and content.
ProfileReplyTexts ==
    {<<>>, <<"r1">>, <<"STRENGTHS", ":", "\n", "Fast", "delivery">>}
ProfileReplies == {None} \cup {Str(t) : t \in ProfileReplyTexts}

(* ------------------------------------------------------------------ *)
(* Document Text Extractor                                             *)
(* ------------------------------------------------------------------ *)

FileTypes == {"pdf", "docx", "txt"}
\* zero: a zero-byte file; garbage: bytes that are no document of any type
\* and no valid UTF-8; docA, docB: a well-formed document of the declared
\* type holding one page / paragraph / line of text.
Payloads == {"zero", "garbage", "docA", "docB"}
Files == [type : FileTypes, payload : Payloads]
NoFile == [type |-> "none", payload |-> "none"]

WellFormed(f) == f.payload \in {"docA", "docB"}
Body(f) == IF f.payload = "docA" THEN <<"A">> ELSE <<"B">>

\* try: pypdf.PdfReader; text += page.extract_text() per page, no separator.
\* except: st.error, return "".
extract_text_from_pdf(f) ==
    IF WellFormed(f)
    THEN [text |-> Body(f), notice |-> {}]
    ELSE [text |-> <<>>, notice |-> {"pdf_error"}]

\* try: docx.Document; text += paragraph.text + "\n" per paragraph.
\* except: st.error, return "".
extract_text_from_docx(f) ==
    IF WellFormed(f)
    THEN [text |-> Body(f) \o <<"\n">>, notice |-> {}]
    ELSE [text |-> <<>>, notice |-> {"docx_error"}]

\* uploaded_file.getvalue().decode("utf-8"): no try/except around it.
DecodeRaises(f) == f.payload = "garbage"
DecodeUtf8(f) == IF WellFormed(f) THEN Body(f) ELSE <<>>

\* The three-way dispatch on uploaded_file.type used at both ingestion
\* places.  raised: an exception left the extractor uncaught.
ExtractByType(f) ==
    IF f.type = "pdf"
    THEN [text |-> extract_text_from_pdf(f).text, raised |-> FALSE,
          notice |-> extract_text_from_pdf(f).notice]
    ELSE IF f.type = "docx"
    THEN [text |-> extract_text_from_docx(f).text, raised |-> FALSE,
          notice |-> extract_text_from_docx(f).notice]
    ELSE IF DecodeRaises(f)
    THEN [text |-> <<>>, raised |-> TRUE, notice |-> {}]
    ELSE [text |-> DecodeUtf8(f), raised |-> FALSE, notice |-> {}]

(* ------------------------------------------------------------------ *)
(* State                                                               *)
(* ------------------------------------------------------------------ *)

VARIABLES
    api_key,                  \* sidebar text_input
    env_key,                  \* os.environ["OPENAI_API_KEY"] ("" = unset)
    page,                     \* st.session_state.page
    input_method,             \* radio on page Agent1
    company_details,          \* st.session_state.company_details
    competitors,              \* st.session_state.competitors
    company_docs,             \* file_uploader key="company_docs"
    company_info_paste,       \* text_area of the paste mode
    rfp_upload,               \* file_uploader "Upload RFP Document"
    rfp_content,              \* st.session_state.rfp_content
    scope_analysis,           \* st.session_state.scope_analysis
    winning_proposal,         \* st.session_state.winning_proposal
    company_info_extracted,   \* st.session_state.company_info_extracted
    extracted_company_details,\* st.session_state.extracted_company_details
    enhanced_company_details, \* st.session_state.enhanced_company_details
    refinement_request,       \* text_area on page Final
    trigger,                  \* the button that was True in the last script run
    call,                     \* the model call issued by the last script run
    fault,                    \* where the last script run raised, "none" if it did not
    notices,                  \* st.error messages surfaced by the last script run
    exports,                  \* proposal downloads offered by the last script run
    scope_source,             \* history: the text scope_analysis was computed from
    parse                     \* the field-extraction heuristic run on its own: input, prior profile

vars == <<api_key, env_key, page, input_method, company_details, competitors,
          company_docs, company_info_paste, rfp_upload,
          rfp_content, scope_analysis, winning_proposal, company_info_extracted,
          extracted_company_details, enhanced_company_details,
          refinement_request, trigger, call, fault, notices, exports,
          scope_source, parse>>

\* The button a script run handles; index is the loop index of a remove button.
Button(b) == [button |-> b, index |-> 0]
NoButton == Button("none")

\* before: the value the stage's entity had when the call was issued;
\* before_source: for stage 1, the text that value had been computed from.
NoCall == [stage |-> "none", content |-> <<>>, reply |-> None, before |-> None,
           before_source |-> <<>>]
ParseIdle == [text |-> <<>>, lines |-> <<>>,
              before |-> [f \in ProfileFields |-> <<>>],
              active |-> FALSE, applied |-> FALSE]

\* The state after the first script run of a fresh session: the session-state
\* defaults, page Agent1 rendered in "Manual Entry" mode, which binds the five
\* profile fields to their empty text inputs.
Init ==
    /\ api_key = ""
    /\ env_key = ""
    /\ page = "Agent1"
    /\ input_method = "Manual"
    /\ company_details = [f \in ProfileFields |-> <<>>]
    /\ competitors = <<"">>
    /\ company_docs = <<>>
    /\ company_info_paste = <<>>
    /\ rfp_upload = NoFile
    /\ rfp_content = <<>>
    /\ scope_analysis = EmptyDict
    /\ winning_proposal = Str(<<>>)
    /\ company_info_extracted = FALSE
    /\ extracted_company_details = Absent
    /\ enhanced_company_details = Absent
    /\ refinement_request = <<>>
    /\ trigger = NoButton
    /\ call = NoCall
    /\ fault = "none"
    /\ notices = {}
    /\ exports = {}
    /\ scope_source = <<>>
    /\ parse = ParseIdle


(* ------------------------------------------------------------------ *)
(* Sidebar, Model Call Adapter                                         *)
(* ------------------------------------------------------------------ *)

\* Runs at the top of every script run: a non-empty input is copied into the
\* process environment; an empty input leaves the environment as it is.
SidebarEnv(key, env) == IF key # "" THEN key ELSE env

\* create_agent: TRUE when it returns (llm, messages), FALSE when the key is
\* missing and it returns None after st.error.
create_agent(env) == env # ""

\* Every call site unpacks the result: llm, messages = create_agent(...).
\* Unpacking None raises TypeError, which nothing catches.
UnpackRaises(env) == ~create_agent(env)

\* run_agent surfaces st.error when llm.invoke raised and returns None.
RunAgentNotices(reply) == IF reply = None THEN {"llm_error"} ELSE {}

(* ------------------------------------------------------------------ *)
(* Prompts (f-strings: literal parts concatenated with the fields)     *)
(* ------------------------------------------------------------------ *)

RECURSIVE JoinNames(_)
\* ', '.join(names)
JoinNames(names) ==
    IF names = <<>> THEN <<>>
    ELSE IF Len(names) = 1 THEN <<names[1]>>
    ELSE <<names[1], ",">> \o JoinNames(Tail(names))

\* [c for c in st.session_state.competitors if c]
NonEmptyCompetitors(list) == SelectSeq(list, LAMBDA c : c # "")

\* company_info_text built in manual mode; empty unless the name is set.
ManualInfoText(d) ==
    IF d["company_name"] = <<>> THEN <<>>
    ELSE <<"Company:">> \o d["company_name"]
         \o <<"Industry Focus:">> \o d["industry_focus"]
         \o <<"Key Strengths:">> \o d["key_strengths"]
         \o <<"Case Studies:">> \o d["past_case_studies"]
         \o <<"Unique Selling Points:">> \o d["unique_selling_points"]

\* The fallback block of stage 2 built from the manual entries.
ManualDetails(d) ==
    <<"Company Name:">> \o d["company_name"]
    \o <<"Industry Focus:">> \o d["industry_focus"]
    \o <<"Key Strengths:">> \o d["key_strengths"]
    \o <<"Unique Selling Points:">> \o d["unique_selling_points"]
    \o <<"Past Case Studies:">> \o d["past_case_studies"]

\* company_details_to_use
CompanyDetailsToUse(extracted, flag, d) ==
    IF extracted.kind # "absent" /\ flag THEN extracted.val ELSE ManualDetails(d)

proposal_prompt(details_to_use, list, scope) ==
    <<"COMPANY INFORMATION:">> \o details_to_use
    \o <<"COMPETITORS:">> \o JoinNames(NonEmptyCompetitors(list))
    \o <<"RFP SCOPE ANALYSIS:">> \o scope.val
    \o <<"Please create">>

refinement_prompt(proposal, request) ==
    <<"ORIGINAL PROPOSAL:">> \o proposal.val
    \o <<"REFINEMENT REQUEST:">> \o request
    \o <<"Please provide">>

(* ------------------------------------------------------------------ *)
(* Page guards and rendering                                           *)
(* ------------------------------------------------------------------ *)

\* Agent 2 page: the button is rendered only in the else branch.
Stage1Ready(content) == content # <<>>

\* Mutant of Stage2Ready: the company name is not looked at.
Stage2ReadyScopeOnly(scope, d) == Truthy(scope)

\* Agent 3 page: not scope_analysis or not company_name -> warning only.
Stage2Ready(scope, d) == Truthy(scope) /\ d["company_name"] # <<>>

\* Mutant of FinalReady: only None counts as no proposal.
FinalReadyNotNone(proposal) == proposal.kind # "none"

\* Final page: not winning_proposal -> warning only.
FinalReady(proposal) == Truthy(proposal)

\* `st.button("Refine Proposal") and refinement_request`
RefineRequested(request) == request # <<>>

RawExport(proposal) == [fmt |-> "raw", name |-> <<>>, text |-> proposal.val]
TitledExport(proposal, d) ==
    [fmt |-> "titled", name |-> d["company_name"], text |-> proposal.val]

\* The download buttons a completed render of page pg offers.
PageExports(pg, scope, proposal, d) ==
    IF pg = "Agent3" /\ Stage2Ready(scope, d) /\ Truthy(proposal)
    THEN {RawExport(proposal)}
    ELSE IF pg = "Final" /\ FinalReady(proposal)
    THEN {RawExport(proposal), TitledExport(proposal, d)}
    ELSE {}

\* The preview expander decodes every text/plain company document, on every
\* run in upload mode while documents are in the uploader.
PreviewRaises(docs) ==
    \E i \in 1..Len(docs) : docs[i].type = "txt" /\ DecodeRaises(docs[i])

\* RFP Document Upload block, the last block of page Agent1.
RfpBlock(upload, content) ==
    IF upload = NoFile
    THEN [content |-> content, fault |-> "none", notices |-> {}]
    ELSE IF ExtractByType(upload).raised
    THEN [content |-> content, fault |-> "rfp_decode", notices |-> {}]
    ELSE [content |-> ExtractByType(upload).text, fault |-> "none",
          notices |-> ExtractByType(upload).notice]

\* The rest of a page Agent1 run after the profile block: the competitor
\* inputs (already bound, see RebindCompetitors) and the RFP upload block.
\* early: where the profile block raised, "none" if it completed.
FinishPage1(early, handlerNotices, upload) ==
    /\ fault' = IF early # "none" THEN early ELSE RfpBlock(upload, rfp_content).fault
    /\ rfp_content' = IF early # "none" THEN rfp_content
                      ELSE RfpBlock(upload, rfp_content).content
    /\ notices' = IF early # "none" THEN handlerNotices
                  ELSE handlerNotices \cup RfpBlock(upload, rfp_content).notices
    /\ exports' = {}

\* Where a run of page Agent1 without any button raises in the profile block.
ProfileBlockFault(method, docs) ==
    IF method = "Upload" /\ PreviewRaises(docs) THEN "preview" ELSE "none"

\* Widgets below the profile block exist only if the last run got that far.
BelowProfileRendered == page = "Agent1" /\ fault \in {"none", "rfp_decode"}

\* A script run that handles no button: every page re-renders from state.
Rerender(pg, method, docs, upload) ==
    /\ call' = NoCall
    /\ IF pg = "Agent1"
       THEN FinishPage1(ProfileBlockFault(method, docs), {}, upload)
       ELSE /\ fault' = "none"
            /\ notices' = {}
            /\ rfp_content' = rfp_content
            /\ exports' = PageExports(pg, scope_analysis, winning_proposal,
                                      company_details)

(* ------------------------------------------------------------------ *)
(* Sidebar actions                                                     *)
(* ------------------------------------------------------------------ *)

SetApiKey(k) ==
    /\ k # api_key
    /\ api_key' = k
    /\ env_key' = SidebarEnv(k, env_key)
    /\ trigger' = NoButton
    /\ Rerender(page, input_method, company_docs, rfp_upload)
    /\ UNCHANGED <<page, input_method, company_details, competitors,
                   company_docs, company_info_paste,
                   rfp_upload, scope_analysis, winning_proposal,
                   company_info_extracted, extracted_company_details,
                   enhanced_company_details, refinement_request, scope_source, parse>>

\* Widgets of a page that is not rendered lose their state: a page's inputs
\* start from their defaults when the page is entered.
Navigate(p) ==
    /\ p # page
    /\ page' = p
    /\ env_key' = SidebarEnv(api_key, env_key)
    /\ input_method' = "Manual"
    /\ company_docs' = <<>>
    /\ company_info_paste' = <<>>
    /\ rfp_upload' = NoFile
    /\ refinement_request' = <<>>
    /\ trigger' = NoButton
    /\ Rerender(p, "Manual", <<>>, NoFile)
    /\ UNCHANGED <<api_key, company_details, competitors, scope_analysis, winning_proposal, company_info_extracted,
                   extracted_company_details, enhanced_company_details, scope_source, parse>>


\* Another browser session is opened on the same server process: its session
\* state and widgets start from the defaults and its first script run renders
\* page Agent1; os.environ belongs to the process and is as the earlier
\* session left it.
NewSession ==
    /\ api_key' = ""
    /\ env_key' = SidebarEnv("", env_key)
    /\ page' = "Agent1"
    /\ input_method' = "Manual"
    /\ company_details' = [f \in ProfileFields |-> <<>>]
    /\ competitors' = <<"">>
    /\ company_docs' = <<>>
    /\ company_info_paste' = <<>>
    /\ rfp_upload' = NoFile
    /\ rfp_content' = <<>>
    /\ scope_analysis' = EmptyDict
    /\ winning_proposal' = Str(<<>>)
    /\ company_info_extracted' = FALSE
    /\ extracted_company_details' = Absent
    /\ enhanced_company_details' = Absent
    /\ refinement_request' = <<>>
    /\ trigger' = NoButton
    /\ call' = NoCall
    /\ fault' = "none"
    /\ notices' = {}
    /\ exports' = {}
    /\ scope_source' = <<>>
    /\ UNCHANGED parse

(* ------------------------------------------------------------------ *)
(* Page Agent1: manual entry and RFP upload                            *)
(* ------------------------------------------------------------------ *)

SelectInputMethod(m) ==
    /\ page = "Agent1"
    /\ m # input_method
    /\ input_method' = m
    /\ env_key' = SidebarEnv(api_key, env_key)
    /\ company_docs' = <<>>
    /\ company_info_paste' = <<>>
    /\ trigger' = NoButton
    /\ Rerender(page, m, <<>>, rfp_upload)
    /\ UNCHANGED <<api_key, page, company_details, competitors, rfp_upload, scope_analysis, winning_proposal,
                   company_info_extracted, extracted_company_details,
                   enhanced_company_details, refinement_request, scope_source, parse>>

\* company_details[f] = st.text_input(..., value=company_details.get(f, ""))
EditField(f, v) ==
    /\ page = "Agent1"
    /\ input_method = "Manual"
    /\ v # company_details[f]
    /\ company_details' = [company_details EXCEPT ![f] = v]
    /\ env_key' = SidebarEnv(api_key, env_key)
    /\ trigger' = NoButton
    /\ Rerender(page, input_method, company_docs, rfp_upload)
    /\ UNCHANGED <<api_key, page, input_method, competitors, company_docs, company_info_paste, rfp_upload, scope_analysis,
                   winning_proposal, company_info_extracted,
                   extracted_company_details, enhanced_company_details,
                   refinement_request, scope_source, parse>>

\* A file is put into, replaced in or removed from the RFP uploader.
UploadRfp(f) ==
    /\ BelowProfileRendered
    /\ f # rfp_upload
    /\ rfp_upload' = f
    /\ env_key' = SidebarEnv(api_key, env_key)
    /\ trigger' = NoButton
    /\ Rerender(page, input_method, company_docs, f)
    /\ UNCHANGED <<api_key, page, input_method, company_details, competitors,
                   company_docs, company_info_paste,
                   scope_analysis, winning_proposal, company_info_extracted,
                   extracted_company_details, enhanced_company_details,
                   refinement_request, scope_source, parse>>

(* ------------------------------------------------------------------ *)
(* Prompt Orchestrator                                                 *)
(* ------------------------------------------------------------------ *)

\* Mutant of Stage1Result: a text reply is added to the previous analysis.
Stage1Accumulates(old, reply) ==
    IF reply.kind = "str" THEN Str(old.val \o reply.val) ELSE reply

\* Stage 1: st.session_state.scope_analysis = run_agent(...)
Stage1Result(old, reply) == reply

\* Stage 2: st.session_state.winning_proposal = run_agent(...)
Stage2Result(old, reply) == reply

\* Mutant of Stage3Result: the refined text is appended to the draft.
Stage3Appends(old, reply) ==
    IF Truthy(reply) THEN Str(old.val \o reply.val) ELSE old

\* Stage 3: if refined_proposal: st.session_state.winning_proposal = refined_proposal
Stage3Result(old, reply) == IF Truthy(reply) THEN reply ELSE old

\* A call site whose create_agent result cannot be unpacked: the run ends
\* there with the message of create_agent on screen and nothing written.
MissingKeyFault ==
    /\ call' = NoCall
    /\ fault' = "create_agent"
    /\ notices' = {"no_api_key"}
    /\ exports' = {}

AnalyzeScope ==
    /\ page = "Agent2"
    /\ Stage1Ready(rfp_content)
    /\ trigger' = Button("stage1")
    /\ env_key' = SidebarEnv(api_key, env_key)
    /\ IF UnpackRaises(env_key')
       THEN MissingKeyFault /\ UNCHANGED <<scope_analysis, scope_source>>
       ELSE \E reply \in Replies :
              /\ call' = [stage |-> "scope", content |-> rfp_content,
                          reply |-> reply, before |-> scope_analysis,
                          before_source |-> scope_source]
              /\ scope_analysis' = Stage1Result(scope_analysis, reply)
              /\ scope_source' = rfp_content
              /\ fault' = "none"
              /\ notices' = RunAgentNotices(reply)
              /\ exports' = {}
    /\ UNCHANGED <<api_key, page, input_method, company_details, competitors,
                   company_docs, company_info_paste, rfp_upload,
                   rfp_content, winning_proposal, company_info_extracted,
                   extracted_company_details, enhanced_company_details,
                   refinement_request, parse>>

GenerateProposal ==
    /\ page = "Agent3"
    /\ Stage2Ready(scope_analysis, company_details)
    /\ trigger' = Button("stage2")
    /\ env_key' = SidebarEnv(api_key, env_key)
    /\ IF UnpackRaises(env_key')
       THEN MissingKeyFault /\ UNCHANGED winning_proposal
       ELSE \E reply \in Replies :
              /\ call' = [stage |-> "proposal",
                          content |-> proposal_prompt(
                              CompanyDetailsToUse(extracted_company_details,
                                  company_info_extracted, company_details),
                              competitors, scope_analysis),
                          reply |-> reply, before |-> winning_proposal,
                          before_source |-> <<>>]
              /\ winning_proposal' = Stage2Result(winning_proposal, reply)
              /\ fault' = "none"
              /\ notices' = RunAgentNotices(reply)
              /\ exports' = PageExports(page, scope_analysis, winning_proposal',
                                        company_details)
    /\ UNCHANGED <<api_key, page, input_method, company_details, competitors,
                   company_docs, company_info_paste, rfp_upload,
                   rfp_content, scope_analysis, company_info_extracted,
                   extracted_company_details, enhanced_company_details,
                   refinement_request, scope_source, parse>>

EditRefinement(r) ==
    /\ page = "Final"
    /\ FinalReady(winning_proposal)
    /\ r # refinement_request
    /\ refinement_request' = r
    /\ env_key' = SidebarEnv(api_key, env_key)
    /\ trigger' = NoButton
    /\ Rerender(page, input_method, company_docs, rfp_upload)
    /\ UNCHANGED <<api_key, page, input_method, company_details, competitors,
                   company_docs, company_info_paste, rfp_upload,
                   scope_analysis, winning_proposal, company_info_extracted,
                   extracted_company_details, enhanced_company_details, scope_source, parse>>

\* The "Refine Proposal" button is pressed.  With an empty request the `and`
\* is false and the page just renders; after a successful refinement
\* st.rerun() renders the page again with the new draft.
RefineProposal ==
    /\ page = "Final"
    /\ FinalReady(winning_proposal)
    /\ trigger' = Button("stage3")
    /\ env_key' = SidebarEnv(api_key, env_key)
    /\ IF ~RefineRequested(refinement_request)
       THEN /\ call' = NoCall
            /\ fault' = "none"
            /\ notices' = {}
            /\ exports' = PageExports(page, scope_analysis, winning_proposal,
                                      company_details)
            /\ UNCHANGED winning_proposal
       ELSE IF UnpackRaises(env_key')
       THEN MissingKeyFault /\ UNCHANGED winning_proposal
       ELSE \E reply \in Replies :
              /\ call' = [stage |-> "refine",
                          content |-> refinement_prompt(winning_proposal,
                                                        refinement_request),
                          reply |-> reply, before |-> winning_proposal,
                          before_source |-> <<>>]
              /\ winning_proposal' = Stage3Result(winning_proposal, reply)
              /\ fault' = "none"
              /\ notices' = RunAgentNotices(reply)
              /\ exports' = PageExports(page, scope_analysis, winning_proposal',
                                        company_details)
    /\ UNCHANGED <<api_key, page, input_method, company_details, competitors,
                   company_docs, company_info_paste, rfp_upload,
                   rfp_content, scope_analysis, company_info_extracted,
                   extracted_company_details, enhanced_company_details,
                   refinement_request, scope_source, parse>>

(* ------------------------------------------------------------------ *)
(* Company Profile Builder: AI extraction triggers                     *)
(* ------------------------------------------------------------------ *)

\* extract_company_details at a call site of page Agent1.  content is the
\* text handed over, early the notices of the extractors that ran before.
\* store: which session fields a truthy reply is written to.
ExtractCompanyDetails(content, early, store) ==
    /\ env_key' = SidebarEnv(api_key, env_key)
    /\ IF UnpackRaises(env_key')
       THEN /\ call' = NoCall
            /\ fault' = "create_agent"
            /\ notices' = early \cup {"no_api_key"}
            /\ exports' = {}
            /\ UNCHANGED <<rfp_content, company_info_extracted,
                           extracted_company_details, enhanced_company_details>>
       ELSE \E reply \in ProfileReplies :
              /\ call' = [stage |-> "extract", content |-> content,
                          reply |-> reply, before |-> None,
                          before_source |-> <<>>]
              /\ IF store = "extracted"
                 THEN /\ company_info_extracted' =
                            (Truthy(reply) \/ company_info_extracted)
                      /\ extracted_company_details' =
                            IF Truthy(reply) THEN reply
                            ELSE extracted_company_details
                      /\ UNCHANGED enhanced_company_details
                 ELSE /\ enhanced_company_details' =
                            IF Truthy(reply) THEN reply
                            ELSE enhanced_company_details
                      /\ UNCHANGED <<company_info_extracted,
                                     extracted_company_details>>
              /\ FinishPage1("none", early \cup RunAgentNotices(reply),
                             rfp_upload)

\* "Enhance Company Details with AI" (manual mode, name entered).
EnhanceCompanyDetails ==
    /\ page = "Agent1"
    /\ input_method = "Manual"
    /\ ManualInfoText(company_details) # <<>>
    /\ trigger' = Button("enhance")
    /\ ExtractCompanyDetails(ManualInfoText(company_details), {}, "enhanced")
    /\ UNCHANGED <<api_key, page, input_method, company_details, competitors,
                   company_docs, company_info_paste, rfp_upload,
                   scope_analysis, winning_proposal, refinement_request, scope_source, parse>>

EditPaste(t) ==
    /\ page = "Agent1"
    /\ input_method = "Paste"
    /\ t # company_info_paste
    /\ company_info_paste' = t
    /\ env_key' = SidebarEnv(api_key, env_key)
    /\ trigger' = NoButton
    /\ Rerender(page, input_method, company_docs, rfp_upload)
    /\ UNCHANGED <<api_key, page, input_method, company_details, competitors,
                   company_docs, rfp_upload, scope_analysis,
                   winning_proposal, company_info_extracted,
                   extracted_company_details, enhanced_company_details,
                   refinement_request, scope_source, parse>>

\* "Extract and Structure Company Details" (paste mode, text pasted).
ExtractPasted ==
    /\ page = "Agent1"
    /\ input_method = "Paste"
    /\ company_info_paste # <<>>
    /\ trigger' = Button("extract_paste")
    /\ ExtractCompanyDetails(company_info_paste, {}, "extracted")
    /\ UNCHANGED <<api_key, page, input_method, company_details, competitors,
                   company_docs, company_info_paste, rfp_upload,
                   scope_analysis, winning_proposal, refinement_request, scope_source, parse>>

RECURSIVE CombinedText(_)
\* combined_text += <extractor>(uploaded_file) + "\n\n", per uploaded file
CombinedText(docs) ==
    IF docs = <<>> THEN <<>>
    ELSE ExtractByType(Head(docs)).text \o <<"\n\n">> \o CombinedText(Tail(docs))

CombinedNotices(docs) ==
    UNION {ExtractByType(docs[i]).notice : i \in 1..Len(docs)}

\* analyze_company_documents: `if combined_text:` decides whether
\* extract_company_details is called.
AnalyzeCalls(docs) == CombinedText(docs) # <<>>

DocLists == {<<>>} \cup UNION {[1..n -> Files] : n \in 1..MaxDocs}

\* Files are put into or removed from the company-documents uploader.
UploadCompanyDocs(docs) ==
    /\ page = "Agent1"
    /\ input_method = "Upload"
    /\ docs # company_docs
    /\ company_docs' = docs
    /\ env_key' = SidebarEnv(api_key, env_key)
    /\ trigger' = NoButton
    /\ Rerender(page, input_method, docs, rfp_upload)
    /\ UNCHANGED <<api_key, page, input_method, company_details, competitors,
                   company_info_paste, rfp_upload,
                   scope_analysis, winning_proposal, company_info_extracted,
                   extracted_company_details, enhanced_company_details,
                   refinement_request, scope_source, parse>>

\* "Extract Company Details from Documents".  The button is below the
\* preview, so it exists only while the preview does not raise.
ExtractFromDocuments ==
    /\ page = "Agent1"
    /\ input_method = "Upload"
    /\ company_docs # <<>>
    /\ ~PreviewRaises(company_docs)
    /\ trigger' = Button("extract_docs")
    /\ IF AnalyzeCalls(company_docs)
       THEN ExtractCompanyDetails(CombinedText(company_docs),
                                  CombinedNotices(company_docs), "extracted")
       ELSE /\ env_key' = SidebarEnv(api_key, env_key)
            /\ call' = NoCall
            /\ FinishPage1("none", CombinedNotices(company_docs), rfp_upload)
            /\ UNCHANGED <<company_info_extracted, extracted_company_details,
                           enhanced_company_details>>
    /\ UNCHANGED <<api_key, page, input_method, company_details, competitors,
                   company_docs, company_info_paste, rfp_upload,
                   scope_analysis, winning_proposal, refinement_request, scope_source, parse>>

(* ------------------------------------------------------------------ *)
(* Competitor list                                                     *)
(* ------------------------------------------------------------------ *)

\* Streamlit is not pinned by the repository: releases that identify a keyed
\* widget by all its parameters and releases that identify it by its key
\* alone are both builds of the program.
WidgetIdentities == {"params", "key"}

\* Mutant of RemoveOffered: the first slot gets a remove button too.
RemoveOfferedAny(i) == i >= 0

\* `if i > 0:` around the remove button (i is the 0-based loop index).
RemoveOffered(i) == i > 0

\* st.session_state.competitors.pop(i)
Pop(list, i) == SubSeq(list, 1, i) \o SubSeq(list, i + 2, Len(list))

\* st.text_input(value=default, key=...): default is the value argument,
\* prior the widget of that key as the previous run left it (kind "absent"
\* when that run did not render it).  A Streamlit that identifies a widget
\* by its parameters treats a changed value argument as a new widget; one
\* that identifies it by its key keeps the state the widget had.
text_input(default, prior, identity) ==
    IF prior.kind = "absent" THEN default
    ELSE IF identity = "key" THEN prior.val
    ELSE IF prior.val = default THEN prior.val
    ELSE default

\* The competitor loop of the run st.rerun() starts after pop(i): slot j is
\* bound to key competitor_j.  The interrupted run rendered the inputs of the
\* indices 0..i only, each holding the name its slot then had.
RebindCompetitors(popped, old, i, identity) ==
    [j \in 1..Len(popped) |->
        text_input(popped[j],
                   IF j - 1 <= i THEN Str(old[j]) ELSE Absent,
                   identity)]

EditCompetitor(i, v) ==
    /\ BelowProfileRendered
    /\ i \in 0..(Len(competitors) - 1)
    /\ v # competitors[i + 1]
    /\ competitors' = [competitors EXCEPT ![i + 1] = v]
    /\ env_key' = SidebarEnv(api_key, env_key)
    /\ trigger' = NoButton
    /\ Rerender(page, input_method, company_docs, rfp_upload)
    /\ UNCHANGED <<api_key, page, input_method, company_details,
                   company_docs, company_info_paste, rfp_upload,
                   scope_analysis, winning_proposal, company_info_extracted,
                   extracted_company_details, enhanced_company_details,
                   refinement_request, scope_source, parse>>

\* "Add Competitor": append("") and st.rerun(); the new slot gets a new input.
AddCompetitor ==
    /\ BelowProfileRendered
    /\ Len(competitors) < MaxCompetitors
    /\ competitors' = Append(competitors, "")
    /\ env_key' = SidebarEnv(api_key, env_key)
    /\ trigger' = Button("add")
    /\ Rerender(page, input_method, company_docs, rfp_upload)
    /\ UNCHANGED <<api_key, page, input_method, company_details,
                   company_docs, company_info_paste, rfp_upload,
                   scope_analysis, winning_proposal, company_info_extracted,
                   extracted_company_details, enhanced_company_details,
                   refinement_request, scope_source, parse>>

\* The remove button of slot i: pop(i) and st.rerun().
RemoveCompetitor(i) ==
    /\ BelowProfileRendered
    /\ i \in 0..(Len(competitors) - 1)
    /\ RemoveOffered(i)
    /\ \E identity \in WidgetIdentities :
         competitors' = RebindCompetitors(Pop(competitors, i), competitors, i,
                                          identity)
    /\ env_key' = SidebarEnv(api_key, env_key)
    /\ trigger' = [button |-> "remove", index |-> i]
    /\ Rerender(page, input_method, company_docs, rfp_upload)
    /\ UNCHANGED <<api_key, page, input_method, company_details,
                   company_docs, company_info_paste, rfp_upload,
                   scope_analysis, winning_proposal, company_info_extracted,
                   extracted_company_details, enhanced_company_details,
                   refinement_request, scope_source, parse>>

(* ------------------------------------------------------------------ *)
(* Heuristic field extraction ("Use These Extracted Details")          *)
(* ------------------------------------------------------------------ *)

\* str.upper() on the words the model's texts are made of.
Upper(w) ==
    CASE w = "strengths" -> "STRENGTHS"
      [] w = "capabilities" -> "CAPABILITIES"
      [] w = "Capabilities" -> "CAPABILITIES"
      [] w = "case" -> "CASE"
      [] w = "studies" -> "STUDIES"
      [] w = "references" -> "REFERENCES"
      [] w = "References" -> "REFERENCES"
      [] w = "unique" -> "UNIQUE"
      [] w = "selling" -> "SELLING"
      [] w = "usp" -> "USP"
      [] w = "industry" -> "INDUSTRY"
      [] w = "Industry" -> "INDUSTRY"
      [] w = "expertise" -> "EXPERTISE"
      [] w = "Fast" -> "FAST"
      [] w = "delivery" -> "DELIVERY"
      [] w = "Acme" -> "ACME"
      [] w = "Corp" -> "CORP"
      [] w = "s" -> "S"
      [] OTHER -> w

UpperLine(line) == [k \in 1..Len(line) |-> Upper(line[k])]

\* `kw in text`: kw occurs as a contiguous part of text.
Contains(text, kw) ==
    \E k \in 0..(Len(text) - Len(kw)) : SubSeq(text, k + 1, k + Len(kw)) = kw

\* The if/elif chain over line.upper(); "" when no keyword matches.
SectionOfHeader(line) ==
    IF Contains(UpperLine(line), <<"STRENGTHS">>)
       \/ Contains(UpperLine(line), <<"CAPABILITIES">>) THEN "strengths"
    ELSE IF Contains(UpperLine(line), <<"CASE", "STUDIES">>)
       \/ Contains(UpperLine(line), <<"REFERENCES">>) THEN "case_studies"
    ELSE IF Contains(UpperLine(line), <<"UNIQUE", "SELLING">>)
       \/ Contains(UpperLine(line), <<"USP">>) THEN "usps"
    ELSE IF Contains(UpperLine(line), <<"INDUSTRY">>)
       \/ Contains(UpperLine(line), <<"EXPERTISE">>) THEN "industry"
    ELSE ""

\* Mutant of FieldOfSection: case studies and selling points are swapped.
FieldOfSectionSwapped(section) ==
    CASE section = "strengths" -> "key_strengths"
      [] section = "case_studies" -> "unique_selling_points"
      [] section = "usps" -> "past_case_studies"
      [] section = "industry" -> "industry_focus"
      [] OTHER -> ""

\* The inner if/elif chain: the profile field a section appends to.
FieldOfSection(section) ==
    CASE section = "strengths" -> "key_strengths"
      [] section = "case_studies" -> "past_case_studies"
      [] section = "usps" -> "unique_selling_points"
      [] section = "industry" -> "industry_focus"
      [] OTHER -> ""

\* Mutant of AppendLine: the line replaces what the field held.
AppendLineReplaces(d, field, line) == [d EXCEPT ![field] = line \o <<"\n">>]

\* company_details[field] += line + "\n"
AppendLine(d, field, line) == [d EXCEPT ![field] = @ \o line \o <<"\n">>]

RECURSIVE SplitLines(_)
\* extracted_info.split('\n')
SplitLines(text) ==
    IF \A k \in 1..Len(text) : text[k] # "\n" THEN <<text>>
    ELSE LET k == CHOOSE n \in 1..Len(text) :
                      text[n] = "\n" /\ \A m \in 1..(n - 1) : text[m] # "\n"
         IN <<SubSeq(text, 1, k - 1)>> \o SplitLines(SubSeq(text, k + 1, Len(text)))

RECURSIVE ParseLines(_, _, _)
\* for line in lines: the body of the loop, carried over the remaining lines
ParseLines(d, lines, current_section) ==
    IF lines = <<>> THEN d
    ELSE IF SectionOfHeader(Head(lines)) # ""
    THEN ParseLines(d, Tail(lines), SectionOfHeader(Head(lines)))
    ELSE IF FieldOfSection(current_section) # ""
    THEN IF FieldOfSection(current_section) \in DOMAIN d
         THEN ParseLines(AppendLine(d, FieldOfSection(current_section),
                                    Head(lines)),
                         Tail(lines), current_section)
         ELSE d
    ELSE ParseLines(d, Tail(lines), current_section)

RECURSIVE ParseRaises(_, _, _)
\* `company_details[key] += ...` reads the key first: KeyError when the dict
\* does not hold it, which ends the loop and the run.
ParseRaises(d, lines, current_section) ==
    IF lines = <<>> THEN FALSE
    ELSE IF SectionOfHeader(Head(lines)) # ""
    THEN ParseRaises(d, Tail(lines), SectionOfHeader(Head(lines)))
    ELSE IF FieldOfSection(current_section) # ""
    THEN FieldOfSection(current_section) \notin DOMAIN d
         \/ ParseRaises(d, Tail(lines), current_section)
    ELSE ParseRaises(d, Tail(lines), current_section)

\* lines = extracted_info.split('\n'); current_section = ""; the loop
ApplyExtracted(d, extracted_info) == ParseLines(d, SplitLines(extracted_info), "")

\* A st.button is True only in the script run started by its own press.
ButtonTrue(button, pressed) == button = pressed

\* Line 241 is reached only inside `if st.button("Extract Company Details
\* from Documents")` and `if extracted_info`.
UseExtractedReached(pressed) ==
    ButtonTrue("extract_docs", pressed) /\ ButtonTrue("use_extracted", pressed)

\* "Use These Extracted Details" is pressed: the button was rendered by the
\* run that extracted, and its press starts a new run from the top.
UseExtractedDetails ==
    /\ page = "Agent1"
    /\ input_method = "Upload"
    /\ trigger.button = "extract_docs"
    /\ call.stage = "extract"
    /\ Truthy(call.reply)
    /\ company_details' =
          IF UseExtractedReached("use_extracted")
          THEN ApplyExtracted(company_details, call.reply.val)
          ELSE company_details
    /\ env_key' = SidebarEnv(api_key, env_key)
    /\ call' = NoCall
    /\ trigger' = Button("use_extracted")
    /\ FinishPage1(ProfileBlockFault(input_method, company_docs), {}, rfp_upload)
    /\ UNCHANGED <<api_key, page, input_method, competitors, company_docs,
                   company_info_paste, rfp_upload, scope_analysis,
                   winning_proposal, company_info_extracted,
                   extracted_company_details, enhanced_company_details,
                   refinement_request, scope_source, parse>>

\* The lines the extracted text is drawn from: headers in both cases, a
\* keyword inside a longer word, half a keyword, two keywords in one line,
\* plain content and the empty line.
LineCatalogue ==
    { <<"STRENGTHS", ":">>, <<"capabilities">>,
      <<"CASE", "STUDIES", ":">>, <<"References">>,
      <<"UNIQUE", "SELLING", "POINTS">>, <<"USP", "s">>,
      <<"INDUSTRY">>, <<"expertise">>,
      <<"industry", "strengths">>, <<"Industry", "references">>,
      <<"CASE">>, <<"Fast", "delivery">>, <<"Acme", "Corp", "2019">>, <<>> }

RECURSIVE JoinLines(_)
\* '\n'.join(lines)
JoinLines(lines) ==
    IF Len(lines) = 1 THEN lines[1]
    ELSE lines[1] \o <<"\n">> \o JoinLines(Tail(lines))

ExtractedLines == UNION {[1..n -> LineCatalogue] : n \in 1..MaxLines}

\* The profile when the parser is entered: the five keys exist from the
\* first script run on (Manual Entry is the default mode and binds them).
PriorProfiles ==
    {[f \in ProfileFields |-> IF f = "company_name" THEN n ELSE v] :
        n \in NameValues, v \in FieldValues}

\* The handler body at line 243 entered with extracted_info = parse.text.
ApplyHeuristic ==
    /\ parse.active
    /\ ~parse.applied
    /\ company_details' = ApplyExtracted(company_details, parse.text)
    /\ fault' = IF ParseRaises(company_details, SplitLines(parse.text), "")
                THEN "key_error" ELSE "none"
    /\ parse' = [parse EXCEPT !.applied = TRUE]
    /\ UNCHANGED <<api_key, env_key, page, input_method, competitors,
                   company_docs, company_info_paste, rfp_upload, rfp_content,
                   scope_analysis, winning_proposal, company_info_extracted,
                   extracted_company_details, enhanced_company_details,
                   refinement_request, trigger, call, notices, exports,
                   scope_source>>

(* ------------------------------------------------------------------ *)
(* Specifications                                                      *)
(* ------------------------------------------------------------------ *)

\* The RFP uploads of the pipeline: two documents with different text, one
\* that fails to parse and one that fails to decode.
PipelineFiles ==
    { [type |-> "pdf", payload |-> "docA"], [type |-> "docx", payload |-> "docB"],
      [type |-> "pdf", payload |-> "garbage"], [type |-> "txt", payload |-> "garbage"] }

\* The pipeline: credential, navigation, company name, RFP upload, the
\* manual and pasted AI extraction triggers, and the three stages.
Next ==
    \/ \E k \in KeyValues : SetApiKey(k)
    \/ \E p \in Pages : Navigate(p)
    \/ \E v \in NameValues : EditField("company_name", v)
    \/ \E f \in PipelineFiles \cup {NoFile} : UploadRfp(f)
    \/ AnalyzeScope
    \/ GenerateProposal
    \/ \E r \in RequestValues : EditRefinement(r)
    \/ RefineProposal
    \/ \E m \in InputMethods : SelectInputMethod(m)
    \/ EnhanceCompanyDetails
    \/ \E t \in PasteValues : EditPaste(t)
    \/ ExtractPasted
    \/ NewSession

Spec == Init /\ [][Next]_vars

\* Document ingestion: the RFP uploader and the company-documents mode.
NextDocs ==
    \/ \E k \in KeyValues : SetApiKey(k)
    \/ \E m \in InputMethods : SelectInputMethod(m)
    \/ \E f \in Files \cup {NoFile} : UploadRfp(f)
    \/ \E docs \in DocLists : UploadCompanyDocs(docs)
    \/ ExtractFromDocuments
    \/ UseExtractedDetails

SpecDocs == Init /\ [][NextDocs]_vars

\* The competitor list of page Agent1.
NextCompetitors ==
    \/ \E k \in KeyValues : SetApiKey(k)
    \/ \E p \in Pages : Navigate(p)
    \/ \E i \in 0..(MaxCompetitors - 1), v \in CompetitorNames : EditCompetitor(i, v)
    \/ AddCompetitor
    \/ \E i \in 0..(MaxCompetitors - 1) : RemoveCompetitor(i)

SpecCompetitors == Init /\ [][NextCompetitors]_vars

\* The field-extraction heuristic as a function of the prior profile and
\* the extracted text.
InitParse ==
    /\ api_key = ""
    /\ env_key = ""
    /\ page = "Agent1"
    /\ input_method = "Upload"
    /\ company_details \in PriorProfiles
    /\ competitors = <<"">>
    /\ company_docs = <<>>
    /\ company_info_paste = <<>>
    /\ rfp_upload = NoFile
    /\ rfp_content = <<>>
    /\ scope_analysis = EmptyDict
    /\ winning_proposal = Str(<<>>)
    /\ company_info_extracted = FALSE
    /\ extracted_company_details = Absent
    /\ enhanced_company_details = Absent
    /\ refinement_request = <<>>
    /\ trigger = NoButton
    /\ call = NoCall
    /\ fault = "none"
    /\ notices = {}
    /\ exports = {}
    /\ scope_source = <<>>
    /\ \E ls \in ExtractedLines :
         parse = [text |-> JoinLines(ls), lines |-> ls,
                  before |-> company_details, active |-> TRUE,
                  applied |-> FALSE]

NextParse == ApplyHeuristic

SpecParse == InitParse /\ [][NextParse]_vars


(* ------------------------------------------------------------------ *)
(* Claims                                                              *)
(* ------------------------------------------------------------------ *)

CompanyName == company_details["company_name"]

\* C1 (as claimed): in each of the three stages, a model call that fails
\* (run_agent returns None) leaves the stage's entity at the value it had
\* before the call: scope_analysis for stage 1, winning_proposal for stages
\* 2 and 3.
C1_FailedCallKeepsEntity ==
    (call.stage \in {"scope", "proposal", "refine"} /\ call.reply = None)
        => /\ call.stage = "scope" => scope_analysis = call.before
           /\ call.stage \in {"proposal", "refine"} => winning_proposal = call.before

\* C2: stage 2 issues a model call or writes winning_proposal only from a
\* state in which scope_analysis is non-empty and the company name is
\* non-empty.
C2_Stage2Guarded ==
    [][ (trigger'.button = "stage2"
          /\ (call'.stage = "proposal" \/ winning_proposal' # winning_proposal))
        => (Truthy(scope_analysis) /\ CompanyName # <<>>) ]_vars

\* C2 witness: stage 2 has run, called the model and written a proposal.
C2_Witness ==
    /\ trigger.button = "stage2"
    /\ call.stage = "proposal"
    /\ Truthy(winning_proposal)
    /\ CompanyName # <<>>

\* C3: stage 3 issues a model call only from a state with a non-empty
\* winning_proposal and a non-empty refinement request, and a run offers the
\* proposal downloads (raw and titled) only when the winning_proposal it ends
\* with is non-empty, each download carrying exactly that text.
C3_RefineAndExportsGuarded ==
    [][ /\ call'.stage = "refine"
            => (Truthy(winning_proposal) /\ refinement_request # <<>>)
        /\ exports' # {}
            => (Truthy(winning_proposal')
                /\ \A e \in exports' : e.text = winning_proposal'.val) ]_vars

\* C3 witness: a refinement call was issued and both downloads are offered.
C3_Witness ==
    /\ call.stage = "refine"
    /\ Cardinality(exports) = 2
    /\ Truthy(winning_proposal)

CallSites == {"extract_docs", "extract_paste", "enhance", "stage1", "stage2",
              "stage3"}

\* C4 (as claimed): a call site reached while the credential is absent
\* surfaces the message, issues no model call, ends the run without a fault
\* and leaves scope_analysis and winning_proposal unchanged.
C4_MissingKeyRefused ==
    [][ (trigger'.button \in CallSites /\ env_key' = ""
          /\ (trigger'.button = "stage3" => refinement_request # <<>>))
        => /\ "no_api_key" \in notices'
           /\ call' = NoCall
           /\ fault' = "none"
           /\ scope_analysis' = scope_analysis
           /\ winning_proposal' = winning_proposal ]_vars

\* C5 (as claimed): at both ingestion places no extraction raises, and an
\* RFP file that is empty or cannot be parsed or decoded leaves the empty
\* string as the extracted text.
C5_ExtractionDegradesToEmpty ==
    /\ fault \notin {"preview", "rfp_decode"}
    /\ (page = "Agent1" /\ rfp_upload # NoFile /\ ~WellFormed(rfp_upload)
          /\ fault = "none")
        => rfp_content = <<>>

\* C6: the competitor list always has at least one slot, and a step that
\* shortens it keeps the slot at index 0.
C6_FirstSlotKept ==
    [][ /\ Len(competitors') >= 1
        /\ Len(competitors') < Len(competitors)
            => (trigger'.index >= 1 /\ competitors'[1] = competitors[1]) ]_vars

\* C6 witness: a remove button has been handled and the first slot is there.
C6_Witness ==
    /\ trigger.button = "remove"
    /\ Len(competitors) >= 1
    /\ competitors[1] = "X"

\* C7 (as claimed): add appends one empty string; the remove button of slot
\* i >= 1 leaves the list with exactly element i deleted, the rest in order,
\* once the run started by st.rerun() has bound the inputs again.
C7_AddRemoveExact ==
    [][ /\ trigger'.button = "add" => competitors' = Append(competitors, "")
        /\ trigger'.button = "remove"
            => competitors' = Pop(competitors, trigger'.index) ]_vars

\* C8 (as claimed): a stage 3 call that returns text B leaves
\* winning_proposal = B, and the call carried the winning_proposal of the
\* moment.
C8_RefineReplyBecomesDraft ==
    (call.stage = "refine" /\ call.reply.kind = "str")
        => /\ winning_proposal = call.reply
           /\ call.content = refinement_prompt(call.before, refinement_request)

\* C8 (amended): a stage 3 call that returns a non-empty text B leaves
\* winning_proposal = B (not the previous draft followed by B); one that
\* returns the empty text leaves the previous draft; every stage 3 call
\* carries the winning_proposal of the moment and the request.
C8_RefineOverwrites ==
    call.stage = "refine"
        => /\ call.content = refinement_prompt(call.before, refinement_request)
           /\ Truthy(call.before)
           /\ Truthy(call.reply) => winning_proposal = call.reply
           /\ call.reply = Str(<<>>) => winning_proposal = call.before

\* C8 witness: a refinement replaced a draft by a different text.
C8_Witness ==
    /\ call.stage = "refine"
    /\ Truthy(call.reply)
    /\ call.before # call.reply
    /\ winning_proposal = call.reply

\* C9: stage 1 calls the model only with a non-empty rfp_content, sends
\* exactly the rfp_content of the moment, and a reply that is text becomes
\* scope_analysis as it is, whatever scope_analysis was before.
C9_Stage1Overwrites ==
    call.stage = "scope"
        => /\ rfp_content # <<>>
           /\ call.content = rfp_content
           /\ call.reply.kind = "str" => scope_analysis = call.reply

\* C9 witness: stage 1 succeeded on an earlier analysis and on the text of
\* another upload, and only the new output is left.
C9_Witness ==
    /\ call.stage = "scope"
    /\ Truthy(call.before)
    /\ call.content = <<"B", "\n">>
    /\ call.before_source = <<"A">>
    /\ call.reply = Str(<<"r2">>)
    /\ call.before = Str(<<"r1">>)
    /\ scope_analysis = Str(<<"r2">>)

SectionFields == {"key_strengths", "past_case_studies",
                  "unique_selling_points", "industry_focus"}

\* The header keywords of each field as the claim lists them.
ClaimKeywords(f) ==
    CASE f = "key_strengths" -> {<<"STRENGTHS">>, <<"CAPABILITIES">>}
      [] f = "past_case_studies" -> {<<"CASE", "STUDIES">>, <<"REFERENCES">>}
      [] f = "unique_selling_points" -> {<<"UNIQUE", "SELLING">>, <<"USP">>}
      [] f = "industry_focus" -> {<<"INDUSTRY">>, <<"EXPERTISE">>}

\* The fields a line is a header of; a content line is a header of none.
HeaderFields(line) ==
    {f \in SectionFields :
        \E kw \in ClaimKeywords(f) : Contains(UpperLine(line), kw)}

\* The fields each line is a header of, line by line.
HeaderMap(ls) == [i \in 1..Len(ls) |-> HeaderFields(ls[i])]

\* The most recent header line above line i, 0 if there is none.
Governing(hf, i) ==
    IF \E h \in 1..(i - 1) : hf[h] # {}
    THEN CHOOSE h \in 1..(i - 1) :
            /\ hf[h] # {}
            /\ \A g \in (h + 1)..(i - 1) : hf[g] = {}
    ELSE 0

\* Header lines that name more than one field.
Ambiguous(hf) == {h \in DOMAIN hf : Cardinality(hf[h]) > 1}

FieldOfHeader(hf, h, pick) ==
    IF h \in Ambiguous(hf) THEN pick[h]
    ELSE CHOOSE f \in SectionFields : f \in hf[h]

RECURSIVE ExpectedAppend(_, _, _, _, _)
\* What field f gains: the content lines from position i on whose most
\* recent header is a header of f, each followed by a newline.
ExpectedAppend(ls, hf, f, pick, i) ==
    IF i > Len(ls) THEN <<>>
    ELSE (IF hf[i] = {} /\ Governing(hf, i) # 0
             /\ FieldOfHeader(hf, Governing(hf, i), pick) = f
          THEN ls[i] \o <<"\n">> ELSE <<>>)
         \o ExpectedAppend(ls, hf, f, pick, i + 1)

\* C10: after the heuristic ran over the lines, each section field is its
\* prior value followed by exactly the content lines whose most recent
\* header above is a header of that field, in order; header lines and
\* content lines of other sections are in no other field.
C10_ContentGoesToLatestHeader ==
    parse.applied
        => LET hf == HeaderMap(parse.lines)
           IN \E pick \in [Ambiguous(hf) -> SectionFields] :
                /\ \A h \in Ambiguous(hf) : pick[h] \in hf[h]
                /\ \A f \in SectionFields :
                       company_details[f] =
                           parse.before[f]
                               \o ExpectedAppend(parse.lines, hf, f, pick, 1)

\* C10 witness: a content line under two headers went to the later one only.
C10_Witness ==
    /\ parse.applied
    /\ parse.lines = << <<"STRENGTHS", ":">>, <<"CASE", "STUDIES", ":">>,
                        <<"Acme", "Corp", "2019">> >>
    /\ company_details["past_case_studies"] =
          parse.before["past_case_studies"] \o <<"Acme", "Corp", "2019", "\n">>
    /\ company_details["key_strengths"] = parse.before["key_strengths"]

\* The AI-derived profiles the session holds, whichever trigger produced them.
ProducedProfiles ==
    {p \in {extracted_company_details, enhanced_company_details} :
        p.kind = "str"}

\* C11 (as claimed): the user content of a stage 2 call carries an AI-derived
\* profile whenever one of the extraction triggers (documents, paste, enhance)
\* has produced one in the session, the manual fields only when none has, and
\* as competitors exactly the non-empty slots of the list in order.
C11_Stage2PrefersAiProfile ==
    call.stage = "proposal"
        => IF ProducedProfiles # {}
           THEN \E p \in ProducedProfiles :
                    call.content =
                        proposal_prompt(p.val, competitors, scope_analysis)
           ELSE call.content =
                    proposal_prompt(ManualDetails(company_details),
                                    competitors, scope_analysis)

IsPrefix(a, b) == Len(a) <= Len(b) /\ SubSeq(b, 1, Len(a)) = a

\* The first header line of ls, Len(ls) + 1 if there is none.
FirstHeader(ls) ==
    IF \E h \in 1..Len(ls) : HeaderFields(ls[h]) # {}
    THEN CHOOSE h \in 1..Len(ls) :
            /\ HeaderFields(ls[h]) # {}
            /\ \A g \in 1..(h - 1) : HeaderFields(ls[g]) = {}
    ELSE Len(ls) + 1

\* C12: after the heuristic ran over any text on any prior profile (also the
\* one nobody typed into), each section field starts with its prior value,
\* company_name is the prior one, the run raised nothing, and the lines above
\* the first header changed nothing: the profile is the one the text without
\* those lines gives, the prior one if the text has no header at all.
C12_HeuristicOnlyAppends ==
    parse.applied
        => /\ \A f \in SectionFields :
                IsPrefix(parse.before[f], company_details[f])
           /\ company_details["company_name"] = parse.before["company_name"]
           /\ fault = "none"
           /\ LET h == FirstHeader(parse.lines)
              IN IF h > Len(parse.lines)
                 THEN company_details = parse.before
                 ELSE company_details =
                        ApplyExtracted(parse.before,
                            JoinLines(SubSeq(parse.lines, h, Len(parse.lines))))

\* C12 witness: a field that held text gained the line under its header, and
\* the line above the header went nowhere.
C12_Witness ==
    /\ parse.applied
    /\ parse.lines = << <<"Fast", "delivery">>, <<"STRENGTHS", ":">>,
                        <<"Acme", "Corp", "2019">> >>
    /\ parse.before["key_strengths"] = <<"m">>
    /\ company_details["key_strengths"] = <<"m", "Acme", "Corp", "2019", "\n">>
    /\ company_details["industry_focus"] = <<"m">>

\* Every uploaded company document extracts to the empty text.
AllDocsEmpty(docs) ==
    \A i \in 1..Len(docs) : ExtractByType(docs[i]).text = <<>>

\* C13 (as claimed): a run of the document-mode extraction over documents
\* that all extract to empty text issues no model call and records no
\* AI-derived profile.
C13_EmptyDocsAreNothing ==
    [][ (trigger'.button = "extract_docs" /\ AllDocsEmpty(company_docs))
        => /\ call' = NoCall
           /\ company_info_extracted' = company_info_extracted
           /\ extracted_company_details' = extracted_company_details ]_vars

\* C14 (as claimed): in every reachable state a non-empty winning_proposal
\* comes with a non-empty scope_analysis.
C14_ProposalImpliesScope ==
    Truthy(winning_proposal) => Truthy(scope_analysis)

\* The press of "Use These Extracted Details" finds an extracted text that
\* the heuristic would change the profile with.
UseExtractedHasEffect ==
    /\ call.stage = "extract"
    /\ Truthy(call.reply)
    /\ ApplyExtracted(company_details, call.reply.val) # company_details

\* C15 (as claimed): the press of "Use These Extracted Details" after a
\* successful document extraction takes effect: when the extracted text has
\* content under a header, the run that handles the press leaves the profile
\* the heuristic gives.
C15_UseExtractedTakesEffect ==
    [][ (trigger'.button = "use_extracted" /\ UseExtractedHasEffect)
        => company_details' =
              ApplyExtracted(company_details, call.reply.val) ]_vars

\* No run that handles a press of "Use These Extracted Details" changes the
\* profile.
UseExtractedNeverApplies ==
    [][ trigger'.button = "use_extracted"
        => company_details' = company_details ]_vars

\* A press of "Use These Extracted Details" was handled over an extracted
\* text with content under a header.
UseExtractedPressed ==
    /\ trigger.button = "use_extracted"
    /\ extracted_company_details =
          Str(<<"STRENGTHS", ":", "\n", "Fast", "delivery">>)

\* C16 (as claimed): a model call is issued only while the session's own key
\* input is non-empty, also after the key was cleared and in a later session
\* of the same process that never entered one.
C16_CallNeedsSessionKey ==
    call.stage # "none" => api_key # ""

====
